---------------------------- MODULE Spec2Model ----------------------------
(***************************************************************************)
(* Branch-selection model of the GM2Calc loop-function layer.              *)
(*                                                                         *)
(* Two copies of the layer exist in the repository and both are modelled:  *)
(*   "cur"  src/src/gm2_ffunctions.cpp                                     *)
(*   "old"  src/unnamed/part_003  (the earlier revision of the same file)  *)
(*                                                                         *)
(* A double is modelled by an exact rational (sign, numerator,             *)
(* denominator), the numerator and denominator being naturals of           *)
(* unbounded size, so that every comparison the code makes against a       *)
(* tolerance (eps = 10*DBL_EPSILON, 1e-11, 0.001, ...) is decided exactly. *)
(* A zero denominator encodes the IEEE results of a division by zero:      *)
(* n/0 is +-infinity and 0/0 is NaN.  Negative zero is not distinguished   *)
(* from zero.  The transcendental closed forms (log, dilog, clausen_2)     *)
(* are not evaluated: a function returns a term that names the formula     *)
(* the code selected and the arguments it passed to it, together with the  *)
(* diagnostics it emitted and the formulas and logarithms it evaluated.    *)
(***************************************************************************)
EXTENDS Integers, Sequences, FiniteSets, TLC

(***************************************************************************)
(* Naturals of unbounded size: little-endian sequences of limbs in radix   *)
(* Radix, without high-order zero limbs; <<>> is zero.                     *)
(***************************************************************************)
Radix == 100 * 100

RECURSIVE BNat(_)
BNat(n) == IF n = 0 THEN <<>> ELSE <<n % Radix>> \o BNat(n \div Radix)

RECURSIVE BStrip(_)
BStrip(a) ==
  IF a = <<>> THEN <<>>
  ELSE IF a[Len(a)] = 0 THEN BStrip(SubSeq(a, 1, Len(a) - 1))
  ELSE a

RECURSIVE BAddC(_, _, _)
BAddC(a, b, c) ==
  IF a = <<>> /\ b = <<>> THEN (IF c = 0 THEN <<>> ELSE <<c>>)
  ELSE LET x == IF a = <<>> THEN 0 ELSE Head(a)
           y == IF b = <<>> THEN 0 ELSE Head(b)
           s == x + y + c
       IN  <<s % Radix>> \o BAddC(IF a = <<>> THEN <<>> ELSE Tail(a),
                                  IF b = <<>> THEN <<>> ELSE Tail(b),
                                  s \div Radix)

BAdd(a, b) == BAddC(a, b, 0)

\* -1, 0, 1 as a < b, a = b, a > b
RECURSIVE BCmpHi(_, _, _)
BCmpHi(a, b, i) ==
  IF i = 0 THEN 0
  ELSE IF a[i] < b[i] THEN -1
  ELSE IF a[i] > b[i] THEN 1
  ELSE BCmpHi(a, b, i - 1)

BCmp(a, b) ==
  IF Len(a) < Len(b) THEN -1
  ELSE IF Len(a) > Len(b) THEN 1
  ELSE BCmpHi(a, b, Len(a))

\* a - b for a >= b, before stripping
RECURSIVE BSubB(_, _, _)
BSubB(a, b, w) ==
  IF a = <<>> THEN <<>>
  ELSE LET y == IF b = <<>> THEN 0 ELSE Head(b)
           s == Head(a) - y - w
       IN  IF s < 0
           THEN <<s + Radix>> \o BSubB(Tail(a), IF b = <<>> THEN <<>> ELSE Tail(b), 1)
           ELSE <<s>> \o BSubB(Tail(a), IF b = <<>> THEN <<>> ELSE Tail(b), 0)

BSub(a, b) == BStrip(BSubB(a, b, 0))

\* a * k + c for a limb k
RECURSIVE BMulS(_, _, _)
BMulS(a, k, c) ==
  IF a = <<>> THEN (IF c = 0 THEN <<>> ELSE <<c>>)
  ELSE LET s == Head(a) * k + c
       IN  <<s % Radix>> \o BMulS(Tail(a), k, s \div Radix)

BShift(a) == IF a = <<>> THEN <<>> ELSE <<0>> \o a

RECURSIVE BMul(_, _)
BMul(a, b) ==
  IF a = <<>> \/ b = <<>> THEN <<>>
  ELSE BAdd(IF Head(b) = 0 THEN <<>> ELSE BMulS(a, Head(b), 0),
            BShift(BMul(a, Tail(b))))

\* the natural written in radix-Radix digits, most significant first
RECURSIVE BRev(_)
BRev(a) == IF a = <<>> THEN <<>> ELSE BRev(Tail(a)) \o <<Head(a)>>

BDigits(ds) == BStrip(BRev(ds))

RECURSIVE BPowRadix(_)
BPowRadix(k) == IF k = 0 THEN <<1>> ELSE <<0>> \o BPowRadix(k - 1)

(***************************************************************************)
(* Doubles as exact rationals [s, n, d]: the value s*n/d.                  *)
(*   finite:    d # <<>>; zero is [0, <<>>, <<1>>]                         *)
(*   infinite:  d = <<>>, n = <<1>>, s the sign                            *)
(*   NaN:       d = <<>>, n = <<>>, s = 0                                  *)
(***************************************************************************)
QMk(s, n, d) ==
  IF d = <<>> THEN (IF n = <<>> \/ s = 0
                      THEN [s |-> 0, n |-> <<>>, d |-> <<>>]
                      ELSE [s |-> s, n |-> <<1>>, d |-> <<>>])
  ELSE IF n = <<>> \/ s = 0 THEN [s |-> 0, n |-> <<>>, d |-> <<1>>]
  ELSE [s |-> s, n |-> n, d |-> d]

QNaN == QMk(0, <<>>, <<>>)

RECURSIVE Gcd(_, _)
Gcd(a, b) == IF b = 0 THEN a ELSE Gcd(b, a % b)

\* p/q for integers p and q > 0, in lowest terms
Q(p, q) ==
  LET a == IF p < 0 THEN -p ELSE p
      g == Gcd(a, q)
  IN  QMk(IF p < 0 THEN -1 ELSE IF p = 0 THEN 0 ELSE 1,
          BNat(a \div g), BNat(q \div g))

\* the decimal literal with the radix-Radix digits ds and k fractional limbs
Dec(ds, k) == QMk(1, BDigits(ds), BPowRadix(k))

IsNaN(a) == a.d = <<>> /\ a.n = <<>>
IsInf(a) == a.d = <<>> /\ a.n # <<>>
IsFinite(a) == a.d # <<>>

QNeg(a) == [a EXCEPT !.s = -a.s]
QAbs(a) == [a EXCEPT !.s = IF a.s = 0 THEN 0 ELSE 1]

\* the signed sum s1*x + s2*y of two naturals, as (sign, magnitude)
SAdd(s1, x, s2, y) ==
  IF s1 = 0 \/ x = <<>> THEN <<IF y = <<>> THEN 0 ELSE s2, y>>
  ELSE IF s2 = 0 \/ y = <<>> THEN <<s1, x>>
  ELSE IF s1 = s2 THEN <<s1, BAdd(x, y)>>
  ELSE LET c == BCmp(x, y)
       IN  IF c = 0 THEN <<0, <<>> >>
           ELSE IF c > 0 THEN <<s1, BSub(x, y)>>
           ELSE <<s2, BSub(y, x)>>

QAdd(a, b) ==
  IF IsNaN(a) \/ IsNaN(b) THEN QNaN
  ELSE IF IsInf(a) /\ IsInf(b) THEN (IF a.s = b.s THEN a ELSE QNaN)
  ELSE IF IsInf(a) THEN a
  ELSE IF IsInf(b) THEN b
  ELSE IF a.d = b.d
       THEN LET r == SAdd(a.s, a.n, b.s, b.n) IN QMk(r[1], r[2], a.d)
  ELSE LET r == SAdd(a.s, BMul(a.n, b.d), b.s, BMul(b.n, a.d))
       IN  QMk(r[1], r[2], BMul(a.d, b.d))

QSub(a, b) == QAdd(a, QNeg(b))

QMul(a, b) ==
  IF IsNaN(a) \/ IsNaN(b) THEN QNaN
  ELSE QMk(a.s * b.s, BMul(a.n, b.n), BMul(a.d, b.d))

\* a/b; a division by (positive) zero gives the infinity of a's sign, 0/0 NaN
QDiv(a, b) ==
  IF IsNaN(a) \/ IsNaN(b) THEN QNaN
  ELSE IF a.n = b.n /\ a.d = b.d /\ IsFinite(a) /\ a.s # 0
       THEN QMk(a.s * b.s, <<1>>, <<1>>)
  ELSE QMk(a.s * (IF b.s = 0 THEN 1 ELSE b.s), BMul(a.n, b.d), BMul(a.d, b.n))

\* -1, 0, 1 as a < b, a = b, a > b; 2 when unordered (a NaN)
QCmp(a, b) ==
  IF IsNaN(a) \/ IsNaN(b) THEN 2
  ELSE IF a.s # b.s THEN (IF a.s < b.s THEN -1 ELSE 1)
  ELSE IF a.s = 0 THEN 0
  ELSE IF IsInf(a) \/ IsInf(b)
       THEN (IF IsInf(a) /\ IsInf(b) THEN 0
             ELSE IF IsInf(a) THEN a.s ELSE -a.s)
  ELSE a.s * (IF a.d = b.d THEN BCmp(a.n, b.n)
              ELSE BCmp(BMul(a.n, b.d), BMul(b.n, a.d)))

QLt(a, b) == QCmp(a, b) = -1
QLe(a, b) == QCmp(a, b) \in {-1, 0}
QGt(a, b) == QCmp(a, b) = 1
QGe(a, b) == QCmp(a, b) \in {0, 1}
QEq(a, b) == QCmp(a, b) = 0

QMax(a, b) == IF QLt(a, b) THEN b ELSE a

Zero == Q(0, 1)
One == Q(1, 1)

Half == Q(1, 2)
Two == Q(2, 1)
Quarter == Q(1, 4)

(***************************************************************************)
(* Tolerances of the code.                                                 *)
(***************************************************************************)
\* eps = 10*DBL_EPSILON = 10/2^52 = 5/2^51, exactly
eps == QMk(1, BNat(5), BDigits(<<2251, 7998, 1368, 5248>>))

\* the literal 1e-11 of the earlier phi_uv
Tol1em11 == QMk(1, BNat(10), BPowRadix(3))

\* the literal 1.0e-7 of the earlier phi_pos and phi_neg
Tol1em7 == QMk(1, BNat(10), BPowRadix(2))

Tol0001 == Q(1, 1000)
Tol001 == Q(1, 100)
Tol003 == Q(3, 100)
Tol004 == Q(4, 100)

(***************************************************************************)
(* Results.  A term names what a function returned: a number (tag "num",   *)
(* the value in args), NaN, or the formula selected (tag), the arguments   *)
(* passed to it (args) and the values of the calls it combines (sub).  An  *)
(* outcome is the returned term, the diagnostics emitted through ERROR in  *)
(* order, and the set of formula, log and division evaluations made.       *)
(***************************************************************************)
T(tag, args, sub) == [tag |-> tag, args |-> args, sub |-> sub]
Num(q) == T("num", <<q>>, <<>>)
NaNTerm == T("NaN", <<>>, <<>>)
IsNum(t) == t.tag = "num"
IsNaNTerm(t) == t.tag = "NaN" \/ (t.tag = "num" /\ IsNaN(t.args[1]))

Ev(f, args) == [f |-> f, args |-> args]
Log(x) == Ev("log", <<x>>)
Div(x) == Ev("div", <<x>>)

Out(val, diag, ev) == [val |-> val, diag |-> diag, ev |-> ev]

\* a branch formula evaluated on args, taking the logarithms of logs
Formula(tag, args, logs) ==
  Out(T(tag, args, <<>>), <<>>, {Ev(tag, args)} \cup {Log(x) : x \in logs})

\* return of a literal
Const(q) == Out(Num(q), <<>>, {})

\* the outcome o of a call of f on a, with the call itself on record
Entered(f, a, o) == [o EXCEPT !.ev = @ \cup {Ev(f, a)}]

\* ERROR(msg); return quiet_NaN()
DomainError(msg) == Out(NaNTerm, <<msg>>, {})

(***************************************************************************)
(* Numerical comparison utilities.                                         *)
(***************************************************************************)
sqr(x) == QMul(x, x)

is_zero(a, prec) == QLt(QAbs(a), prec)

is_equal_abs(a, b, prec) == is_zero(QSub(a, b), prec)

is_equal(a, b, prec) ==
  LET max == QMax(QAbs(a), QAbs(b))
  IN  is_zero(QSub(a, b), QMul(prec, QAdd(One, max)))

sort2(x, y) == IF QGt(x, y) THEN <<y, x>> ELSE <<x, y>>

sort3_twoswaps(x, y, z) ==
  LET a == sort2(x, y)
      b == sort2(a[2], z)
  IN  <<a[1], b[1], b[2]>>

sort3(x, y, z) ==
  LET a == sort2(x, y)
      b == sort2(a[2], z)
      c == sort2(a[1], b[1])
  IN  <<c[1], c[2], b[2]>>

(***************************************************************************)
(* One-loop form factors F1C..F4C, F1N..F4N (the same in both copies).     *)
(***************************************************************************)
F1C(x) ==
  IF is_zero(x, eps) THEN Const(Q(4, 1))
  ELSE IF is_equal(x, One, Tol003) THEN Formula("F1C.series", <<x>>, {})
  ELSE Formula("F1C.closed", <<x>>, {x})

F2C(x) ==
  IF is_zero(x, eps) THEN Const(Zero)
  ELSE IF is_equal(x, One, Tol003) THEN Formula("F2C.series", <<x>>, {})
  ELSE Formula("F2C.closed", <<x>>, {x})

\* no test of x against zero: the closed form takes log(x) and dilog(1 - x)
F3C(x) ==
  IF is_equal(x, One, Tol003) THEN Formula("F3C.series", <<x>>, {})
  ELSE Formula("F3C.closed", <<x>>, {x})

F4C(x) ==
  IF is_zero(x, eps) THEN Const(Zero)
  ELSE IF is_equal(x, One, Tol003) THEN Formula("F4C.series", <<x>>, {})
  ELSE Formula("F4C.closed", <<x>>, {x})

F1N(x) ==
  IF is_zero(x, eps) THEN Const(Two)
  ELSE IF is_equal(x, One, Tol003) THEN Formula("F1N.series", <<x>>, {})
  ELSE Formula("F1N.closed", <<x>>, {x})

\* F2N with the tolerance of the other form factors
F2N_tol003(x) ==
  IF is_zero(x, eps) THEN Const(Q(3, 1))
  ELSE IF is_equal(x, One, Tol003) THEN Formula("F2N.series", <<x>>, {})
  ELSE Formula("F2N.closed", <<x>>, {x})

F2N(x) ==
  IF is_zero(x, eps) THEN Const(Q(3, 1))
  ELSE IF is_equal(x, One, Tol004) THEN Formula("F2N.series", <<x>>, {})
  ELSE Formula("F2N.closed", <<x>>, {x})

F3N(x) ==
  IF is_zero(x, eps) THEN Const(Q(8, 105))
  ELSE IF is_equal(x, One, Tol003) THEN Formula("F3N.series", <<x>>, {})
  ELSE Formula("F3N.closed", <<x>>, {x})

\* PI2 = 9.8696044010893586; F4N(0) = -3.0/4.0*(-9.0 + PI2)
PI2 == Dec(<<9, 8696, 0440, 1089, 3586>>, 4)

F4N(x) ==
  IF is_zero(x, eps) THEN Const(QMul(Q(-3, 4), QAdd(Q(-9, 1), PI2)))
  ELSE IF is_equal(x, One, Tol003) THEN Formula("F4N.series", <<x>>, {})
  ELSE Formula("F4N.closed", <<x>>, {x})

(***************************************************************************)
(* G3, G4 (the same in both copies): no test of x against zero.            *)
(***************************************************************************)
G3(x) ==
  IF is_equal(x, One, Tol001) THEN Formula("G3.series", <<x>>, {})
  ELSE Formula("G3.closed", <<x>>, {x})

G4(x) ==
  IF is_equal(x, One, Tol001) THEN Formula("G4.series", <<x>>, {})
  ELSE Formula("G4.closed", <<x>>, {x})

(***************************************************************************)
(* Fa, Fb.  The helpers Fa11, Fa1, Fax (Fb11, Fb1, Fbx) are polynomial      *)
(* expansions in their ordered arguments; Fa1, Fax, Fb1 and Fbx take the   *)
(* logarithm of their first argument.  The generic branch evaluates        *)
(* -(G(x) - G(y))/(x - y): in IEEE arithmetic a - b = -(b - a) exactly, so *)
(* its value depends on the unordered pair only, and the term carries the  *)
(* pair in ascending order.                                                *)
(***************************************************************************)
Quotient(tag, gx, gy, x, y) ==
  LET p == sort2(x, y)
  IN  Out(T(tag, p, IF QGt(x, y) THEN <<gy.val, gx.val>> ELSE <<gx.val, gy.val>>),
          gx.diag \o gy.diag,
          gx.ev \cup gy.ev \cup {Ev(tag, <<x, y>>), Div(QSub(x, y))})

\* Fa testing x ~ y before the tests against 1
FaBranches_reordered(x, y) ==
  IF is_equal(x, y, Tol0001) THEN Formula("Fax", <<x, y>>, {x})
  ELSE IF is_equal(x, One, Tol0001) THEN Formula("Fa1", <<y, x>>, {y})
  ELSE IF is_equal(y, One, Tol0001) THEN Formula("Fa1", <<x, y>>, {x})
  ELSE Quotient("Fa.generic", G3(x), G3(y), x, y)

FaBranches(x, y) ==
  IF is_equal(x, One, Tol0001) /\ is_equal(y, One, Tol0001)
    THEN Formula("Fa11", <<x, y>>, {})
  ELSE IF is_equal(x, One, Tol0001) THEN Formula("Fa1", <<y, x>>, {y})
  ELSE IF is_equal(y, One, Tol0001) THEN Formula("Fa1", <<x, y>>, {x})
  ELSE IF is_equal(x, y, Tol0001) THEN Formula("Fax", <<x, y>>, {x})
  ELSE Quotient("Fa.generic", G3(x), G3(y), x, y)

FbBranches(x, y) ==
  IF is_equal(x, One, Tol001) /\ is_equal(y, One, Tol001)
    THEN Formula("Fb11", <<x, y>>, {})
  ELSE IF is_equal(x, One, Tol001) THEN Formula("Fb1", <<y, x>>, {y})
  ELSE IF is_equal(y, One, Tol001) THEN Formula("Fb1", <<x, y>>, {x})
  ELSE IF is_equal(x, y, Tol001) THEN Formula("Fbx", <<x, y>>, {x})
  ELSE Quotient("Fb.generic", G4(x), G4(y), x, y)

Fa(x0, y0) ==
  IF QLt(x0, Zero) \/ QLt(y0, Zero)
    THEN DomainError("Fa: x and y must not be negative!")
  ELSE LET p == sort2(x0, y0)
           x == p[1]
           y == p[2]
       IN  IF is_zero(y, eps) THEN Const(Zero)
           ELSE FaBranches(x, y)

Fb(x0, y0) ==
  IF QLt(x0, Zero) \/ QLt(y0, Zero)
    THEN DomainError("Fb: x and y must not be negative!")
  ELSE LET p == sort2(x0, y0)
           x == p[1]
           y == p[2]
       IN  IF is_zero(y, eps) THEN Const(Zero)
           ELSE FbBranches(x, y)

\* the earlier copy: no domain test, no sort, zero test on either argument
FaOld(x, y) ==
  IF (is_zero(x, eps) /\ is_zero(y, eps)) \/ is_zero(x, eps) \/ is_zero(y, eps)
    THEN Const(Zero)
  ELSE FaBranches(x, y)

FbOld(x, y) ==
  IF (is_zero(x, eps) /\ is_zero(y, eps)) \/ is_zero(x, eps) \/ is_zero(y, eps)
    THEN Const(Zero)
  ELSE FbBranches(x, y)

(***************************************************************************)
(* f_PS, f_S, f_sferm, F1, F1t, F2, F3.                                    *)
(***************************************************************************)
\* a closed form that uses the value o of a call it made
Combine(tag, args, logs, o) ==
  Out(IF IsNaNTerm(o.val) THEN NaNTerm ELSE T(tag, args, <<o.val>>),
      o.diag,
      o.ev \cup {Ev(tag, args)} \cup {Log(x) : x \in logs})

\* a formula that takes sqrt(r) and divides by it
RootFormula(tag, args, logs, r) ==
  LET o == Formula(tag, args, logs)
  IN  [o EXCEPT !.ev = @ \cup {Ev("sqrt", <<r>>), Ev("div.sqrt", <<r>>)}]

Four == Q(4, 1)
Ln4 == Dec(<<1, 3862, 9436, 1119, 8906>>, 4)      \* 1.3862943611198906
OneMinusLn4 == QNeg(Dec(<<3862, 9436, 1119, 8906, 2000>>, 5)) \* -0.38629436111989062

f_PS_noquarter(z) ==
  IF QLt(z, Zero) THEN DomainError("f_PS: z must not be negative!")
  ELSE IF QEq(z, Zero) THEN Const(Zero)
  ELSE IF QLe(z, Quarter)
    THEN RootFormula("f_PS.dilog", <<z>>, {z}, QSub(One, QMul(Four, z)))
  ELSE RootFormula("f_PS.clausen", <<z>>, {}, QAdd(Q(-1, 1), QMul(Four, z)))

\* f_PS whose domain test reads z <= 0
f_PS_strict(z) ==
  IF QLe(z, Zero) THEN DomainError("f_PS: z must not be negative!")
  ELSE IF QLt(z, Quarter)
    THEN RootFormula("f_PS.dilog", <<z>>, {z}, QSub(One, QMul(Four, z)))
  ELSE IF QEq(z, Quarter) THEN Const(Ln4)
  ELSE RootFormula("f_PS.clausen", <<z>>, {}, QAdd(Q(-1, 1), QMul(Four, z)))

\* f_PS taking the root of 1 - 4z above the branch point too
f_PS_signslip(z) ==
  IF QLt(z, Zero) THEN DomainError("f_PS: z must not be negative!")
  ELSE IF QEq(z, Zero) THEN Const(Zero)
  ELSE IF QLt(z, Quarter)
    THEN RootFormula("f_PS.dilog", <<z>>, {z}, QSub(One, QMul(Four, z)))
  ELSE IF QEq(z, Quarter) THEN Const(Ln4)
  ELSE RootFormula("f_PS.clausen", <<z>>, {}, QSub(One, QMul(Four, z)))

f_PS(z) ==
  IF QLt(z, Zero) THEN DomainError("f_PS: z must not be negative!")
  ELSE IF QEq(z, Zero) THEN Const(Zero)
  ELSE IF QLt(z, Quarter)
    THEN RootFormula("f_PS.dilog", <<z>>, {z}, QSub(One, QMul(Four, z)))
  ELSE IF QEq(z, Quarter) THEN Const(Ln4)
  ELSE RootFormula("f_PS.clausen", <<z>>, {}, QAdd(Q(-1, 1), QMul(Four, z)))

f_PSOld(z) ==
  IF QLt(z, Zero) THEN DomainError("f_PS: z must not be negative!")
  ELSE IF QEq(z, Zero) THEN Const(Zero)
  ELSE IF QLt(z, Quarter)
    THEN RootFormula("f_PS.dilogs", <<z>>, {}, QSub(One, QMul(Four, z)))
  ELSE IF QEq(z, Quarter) THEN Const(Ln4)
  ELSE RootFormula("f_PS.complex", <<z>>, {}, QSub(One, QMul(Four, z)))

f_PSOf(ver, z) == IF ver = "cur" THEN f_PS(z) ELSE f_PSOld(z)

f_S_silent(ver, z) ==
  IF QLt(z, Zero) THEN Out(NaNTerm, <<>>, {})
  ELSE IF QEq(z, Zero) THEN Const(Zero)
  ELSE Combine("f_S", <<z>>, {z}, f_PSOf(ver, z))

f_S(ver, z) ==
  IF QLt(z, Zero) THEN DomainError("f_S: z must not be negative!")
  ELSE IF QEq(z, Zero) THEN Const(Zero)
  ELSE Combine("f_S", <<z>>, {z}, f_PSOf(ver, z))

f_sferm(ver, z) ==
  IF QLt(z, Zero) THEN DomainError("f_sferm: z must not be negative!")
  ELSE IF QEq(z, Zero) THEN Const(Zero)
  ELSE Combine("f_sferm", <<z>>, {z}, f_PSOf(ver, z))

\* F1 without its own test of w against 0.25
F1_noquarter(w) ==
  IF QLt(w, Zero) THEN DomainError("F1: w must not be negative!")
  ELSE IF QEq(w, Zero) THEN Const(Zero)
  ELSE Combine("F1", <<w>>, {w}, f_PS(w))

F1(w) ==
  IF QLt(w, Zero) THEN DomainError("F1: w must not be negative!")
  ELSE IF QEq(w, Zero) THEN Const(Zero)
  ELSE IF QEq(w, Quarter) THEN Const(Q(-1, 2))
  ELSE Combine("F1", <<w>>, {w}, f_PS(w))

F1Old(w) ==
  IF QLt(w, Zero) THEN DomainError("F1: w must not be negative!")
  ELSE IF QEq(w, Zero) THEN Const(Zero)
  ELSE IF QEq(w, Quarter) THEN Const(Q(-1, 2))
  ELSE RootFormula("F1.complex", <<w>>, {w}, QSub(One, QMul(Four, w)))

\* 0.5*f_PS(w): the domain test is the one f_PS makes
F1t(ver, w) == Combine("F1t", <<w>>, {}, f_PSOf(ver, w))

F2(w) ==
  IF QLt(w, Zero) THEN DomainError("F2: w must not be negative!")
  ELSE IF QEq(w, Quarter) THEN Const(OneMinusLn4)
  ELSE Combine("F2", <<w>>, {w}, f_PS(w))

F2Old(w) ==
  IF QLt(w, Zero) THEN DomainError("F2: w must not be negative!")
  ELSE IF QEq(w, Quarter) THEN Const(OneMinusLn4)
  ELSE RootFormula("F2.complex", <<w>>, {w}, QSub(One, QMul(Four, w)))

F3(w) ==
  IF QLt(w, Zero) THEN DomainError("F3: w must not be negative!")
  ELSE IF QEq(w, Quarter) THEN Const(Q(19, 4))
  ELSE Combine("F3", <<w>>, {w}, f_PS(w))

\* the earlier F3 reports under the name of F2
F3Old(w) ==
  IF QLt(w, Zero) THEN DomainError("F2: w must not be negative!")
  ELSE IF QEq(w, Quarter) THEN Const(Q(19, 4))
  ELSE RootFormula("F3.complex", <<w>>, {w}, QSub(One, QMul(Four, w)))

(***************************************************************************)
(* Phi(x,y,z) and its helpers.                                             *)
(***************************************************************************)
\* qdrt_eps = pow(eps, 0.25) = 0.000217075123295..., to sixteen decimals
qdrt_eps == Dec(<<2, 1707, 5123, 2958>>, 4)

\* the literal 2.343907238689459
PhiOne == Dec(<<2, 3439, 0723, 8689, 4590>>, 4)

lambda_2(u, v) == QSub(sqr(QSub(QSub(One, u), v)), QMul(QMul(Four, u), v))

\* which expansion luv selects for (0.5*(1 - lambda + u - v), 0.5*(1 - lambda - u + v))
luv(u, v) ==
  IF QLt(v, qdrt_eps) THEN "l00"
  ELSE IF QLt(u, qdrt_eps) THEN "l0v"
  ELSE "closed"

\* value of o times the number k
Scale(o, k) ==
  Out(IF IsNaNTerm(o.val) THEN NaNTerm
      ELSE IF IsNum(o.val) THEN Num(QMul(o.val.args[1], k))
      ELSE T("times", <<k>>, <<o.val>>),
      o.diag, o.ev)

phi_pos(u, v) ==
  Entered("phi_pos", <<u, v>>,
    IF is_equal(u, One, eps) /\ is_equal(v, One, eps) THEN Const(PhiOne)
    ELSE IF is_equal(u, v, eps)
      THEN RootFormula(IF QLt(u, qdrt_eps) THEN "phi_pos.uu.series" ELSE "phi_pos.uu.closed",
                       <<u, v>>, {u}, lambda_2(u, v))
    ELSE RootFormula("phi_pos.uv." \o luv(u, v), <<u, v>>, {u, v}, lambda_2(u, v)))

\* acos (asin) of an argument whose square is q: the argument lies in
\* [-1, 1] exactly when q <= 1
Arc(f, q) == Ev(f, <<q>>)

\* the formula outcome o, having taken acos of the arguments with squares qs
WithAcos(o, qs) == [o EXCEPT !.ev = @ \cup {Arc("acos", q) : q \in qs}]

\* phi_neg_1v: cl2acos(1 - 0.5*v) and cl2acos(0.5*sqrt(v))
phi_neg_1v(v, r) ==
  WithAcos(RootFormula("phi_neg.1v", <<v>>, {}, r),
           {sqr(QSub(One, QMul(Half, v))), QMul(Quarter, v)})

\* the three cl2acos of the general case
phi_neg_uv(u, v, r) ==
  WithAcos(RootFormula("phi_neg.uv", <<u, v>>, {}, r),
           {QDiv(sqr(QMul(Half, QSub(QAdd(One, u), v))), u),
            QDiv(sqr(QMul(Half, QAdd(QSub(One, u), v))), v),
            QDiv(sqr(QMul(Half, QAdd(Q(-1, 1), QAdd(u, v)))), QMul(u, v))})

\* phi_neg without the test of u and v against 1
phi_neg_nounit(u, v) ==
  Entered("phi_neg", <<u, v>>,
    IF is_equal(u, v, eps)
      THEN RootFormula("phi_neg.uu", <<u, v>>, {}, QNeg(lambda_2(u, v)))
    ELSE IF is_equal(u, One, eps) THEN phi_neg_1v(v, QNeg(lambda_2(u, v)))
    ELSE IF is_equal(v, One, eps) THEN phi_neg_1v(u, QNeg(lambda_2(u, v)))
    ELSE phi_neg_uv(u, v, QNeg(lambda_2(u, v))))

phi_neg(u, v) ==
  Entered("phi_neg", <<u, v>>,
    IF is_equal(u, One, eps) /\ is_equal(v, One, eps) THEN Const(PhiOne)
    ELSE IF is_equal(u, v, eps)
      THEN [RootFormula("phi_neg.uu", <<u, v>>, {}, QNeg(lambda_2(u, v)))
              EXCEPT !.ev = @ \cup {Arc("asin", QDiv(Quarter, u))}]
    ELSE IF is_equal(u, One, eps) THEN phi_neg_1v(v, QNeg(lambda_2(u, v)))
    ELSE IF is_equal(v, One, eps) THEN phi_neg_1v(u, QNeg(lambda_2(u, v)))
    ELSE phi_neg_uv(u, v, QNeg(lambda_2(u, v))))

phi_uv_noexit(u, v) ==
  LET lambda == lambda_2(u, v)
  IN  IF QGt(lambda, Zero) THEN phi_pos(u, v)
      ELSE phi_neg(u, v)

\* phi_uv handing u and v to phi_pos as they are
phi_uv_direct(u, v) ==
  LET lambda == lambda_2(u, v)
  IN  IF is_zero(lambda, eps) THEN Const(Zero)
      ELSE IF QGt(lambda, Zero) THEN phi_pos(u, v)
      ELSE phi_neg(u, v)

phi_uv(u, v) ==
  LET lambda == lambda_2(u, v)
      vou == QDiv(v, u)
      oou == QDiv(One, u)
      oov == QDiv(One, v)
  IN  IF is_zero(lambda, eps) THEN Const(Zero)
      ELSE IF QGt(lambda, Zero)
        THEN IF QLe(u, One) /\ QLe(v, One) THEN phi_pos(u, v)
             ELSE IF QGe(u, One) /\ QLe(vou, One)
               THEN Scale(phi_pos(oou, vou), oou)
             ELSE Scale(phi_pos(oov, QDiv(One, vou)), oov)
      ELSE phi_neg(u, v)

phi_posOld(u, v) ==
  Entered("phi_pos", <<u, v>>,
    IF is_equal(u, One, Tol1em7) /\ is_equal(v, One, Tol1em7) THEN Const(PhiOne)
    ELSE IF is_equal(u, v, Tol1em7)
      THEN RootFormula("phi_pos.uu", <<u, v>>, {u}, lambda_2(u, v))
    ELSE RootFormula("phi_pos.uv", <<u, v>>, {u, v}, lambda_2(u, v)))

phi_negOld(u, v) ==
  Entered("phi_neg", <<u, v>>,
    IF is_equal(u, One, Tol1em7) /\ is_equal(v, One, Tol1em7) THEN Const(PhiOne)
    ELSE IF is_equal(u, One, Tol1em7) THEN phi_neg_1v(v, QNeg(lambda_2(u, v)))
    ELSE IF is_equal(v, One, Tol1em7) THEN phi_neg_1v(u, QNeg(lambda_2(u, v)))
    ELSE IF is_equal(u, v, Tol1em7)
      THEN WithAcos(RootFormula("phi_neg.uu", <<u, v>>, {}, QNeg(lambda_2(u, v))),
                    {QDiv(One, QMul(Four, u)),
                     sqr(QDiv(QAdd(Q(-1, 1), QMul(Two, u)), QMul(Two, QAbs(u))))})
    ELSE phi_neg_uv(u, v, QNeg(lambda_2(u, v))))

phi_uvOld(u, v) ==
  LET lambda == lambda_2(u, v)
  IN  IF is_zero(lambda, Tol1em11) THEN Const(Zero)
      ELSE IF QGt(lambda, Zero)
        THEN IF QLe(u, One) /\ QLe(v, One) THEN phi_posOld(u, v)
             ELSE IF QGe(u, One) /\ QLe(QDiv(v, u), One)
               THEN Scale(phi_posOld(QDiv(One, u), QDiv(v, u)), QDiv(One, u))
             ELSE Scale(phi_posOld(QDiv(One, v), QDiv(u, v)), QDiv(One, v))
      ELSE phi_negOld(u, v)

phi_uvOf(ver, u, v) == IF ver = "cur" THEN phi_uv(u, v) ELSE phi_uvOld(u, v)

\* sort(x, y, z); u = x/z, v = y/z; phi_uv(u,v)*z*lambda_2(u,v)/2
PhiOf(ver, x0, y0, z0) ==
  LET p == sort3(x0, y0, z0)
      z == p[3]
      u == QDiv(p[1], z)
      v == QDiv(p[2], z)
      o == phi_uvOf(ver, u, v)
  IN  Scale(o, QDiv(QMul(z, lambda_2(u, v)), Two))

Phi(x, y, z) == PhiOf("cur", x, y, z)

PhiOld(x, y, z) == PhiOf("old", x, y, z)

(***************************************************************************)
(* Iabc(a,b,c).                                                            *)
(***************************************************************************)
\* a formula that divides by each of divs
Dividing(o, divs) == [o EXCEPT !.ev = @ \cup {Div(x) : x \in divs}]

I0y(y) ==
  IF is_equal(y, One, eps) THEN Formula("I0y.series", <<y>>, {})
  ELSE Dividing(Formula("I0y.closed", <<y>>, {y}), {QSub(y, One)})

I1y(x, y) == Dividing(Formula("I1y", <<x, y>>, {y}), {QSub(y, One)})

Ixx(x, y) ==
  IF is_equal(y, One, Tol0001) THEN Formula("Ixx.series", <<x, y>>, {})
  ELSE Dividing(Formula("Ixx.closed", <<x, y>>, {y}), {QSub(y, One), y})

\* Ixy without the test of y against 1
Ixy_noyone(x, y) ==
  Entered("Ixy", <<x, y>>,
    IF is_zero(y, eps) THEN Const(Zero)
    ELSE IF is_zero(x, eps) THEN I0y(y)
    ELSE IF is_equal(QDiv(x, y), One, Tol0001) THEN Ixx(x, y)
    ELSE IF is_equal(x, One, Tol0001) THEN I1y(x, y)
    ELSE Dividing(Formula("Ixy.generic", <<x, y>>, {x, y}),
                  {QSub(x, One), QSub(x, y), QSub(y, One)}))

\* Ixy testing x against 1 before x/y
Ixy_onefirst(x, y) ==
  Entered("Ixy", <<x, y>>,
    IF is_zero(y, eps) THEN Const(Zero)
    ELSE IF is_zero(x, eps) THEN I0y(y)
    ELSE IF is_equal(x, One, Tol0001) THEN I1y(x, y)
    ELSE IF is_equal(QDiv(x, y), One, Tol0001) THEN Ixx(x, y)
    ELSE IF is_equal(y, One, Tol0001) THEN I1y(y, x)
    ELSE Dividing(Formula("Ixy.generic", <<x, y>>, {x, y}),
                  {QSub(x, One), QSub(x, y), QSub(y, One)}))

Ixy(x, y) ==
  Entered("Ixy", <<x, y>>,
    IF is_zero(y, eps) THEN Const(Zero)
    ELSE IF is_zero(x, eps) THEN I0y(y)
    ELSE IF is_equal(QDiv(x, y), One, Tol0001) THEN Ixx(x, y)
    ELSE IF is_equal(x, One, Tol0001) THEN I1y(x, y)
    ELSE IF is_equal(y, One, Tol0001) THEN I1y(y, x)
    ELSE Dividing(Formula("Ixy.generic", <<x, y>>, {x, y}),
                  {QSub(x, One), QSub(x, y), QSub(y, One)}))

Ixyz(x0, y0, z0) ==
  LET p == sort3(x0, y0, z0)
      z == p[3]
  IN  IF is_zero(z, eps) THEN Const(Zero)
      ELSE Scale(Ixy(QDiv(p[1], z), QDiv(p[2], z)), QDiv(One, z))

Iabc(a, b, c) == Ixyz(sqr(a), sqr(b), sqr(c))

I2aaa(a, b, c) == Dividing(Formula("I2aaa", <<a, b, c>>, {}), {a})

I2aac(a, b, c) ==
  Dividing(Formula("I2aac", <<a, b, c>>, {QDiv(a, c)}), {QSub(a, c), a, c})

I2aa0(a, b) == Dividing(Formula("I2aa0", <<a, b>>, {}), {a})

I20bc(b, c) ==
  Dividing(Formula("I20bc", <<b, c>>, {QDiv(b, c)}), {QSub(b, c), c})

IabcOld(a, b, c) ==
  LET a2 == sqr(a)
      b2 == sqr(b)
      c2 == sqr(c)
  IN  IF \/ (is_zero(a, eps) /\ is_zero(b, eps) /\ is_zero(c, eps))
         \/ (is_zero(a, eps) /\ is_zero(b, eps))
         \/ (is_zero(a, eps) /\ is_zero(c, eps))
         \/ (is_zero(b, eps) /\ is_zero(c, eps))
        THEN Const(Zero)
      ELSE IF is_equal(a2, b2, Tol0001) /\ is_equal(a2, c2, Tol0001)
        THEN I2aaa(a2, b2, c2)
      ELSE IF is_equal(a2, b2, Tol0001)
        THEN (IF is_zero(c, eps) THEN I2aa0(a2, b2) ELSE I2aac(a2, b2, c2))
      ELSE IF is_equal(b2, c2, Tol0001)
        THEN (IF is_zero(a, eps) THEN I2aa0(b2, c2) ELSE I2aac(b2, c2, a2))
      ELSE IF is_equal(a2, c2, Tol0001)
        THEN (IF is_zero(b, eps) THEN I2aa0(a2, c2) ELSE I2aac(a2, c2, b2))
      ELSE IF is_zero(a, eps) THEN I20bc(b2, c2)
      ELSE IF is_zero(b, eps) THEN I20bc(c2, a2)
      ELSE IF is_zero(c, eps) THEN I20bc(a2, b2)
      ELSE Dividing(Formula("Iabc.generic", <<a2, b2, c2>>,
                            {QDiv(a2, b2), QDiv(b2, c2), QDiv(c2, a2)}),
                    {b2, c2, a2, QSub(a2, b2), QSub(b2, c2), QSub(a2, c2)})

(***************************************************************************)
(* amu2L_B_Yuk() of GeneralTHDM/gm2_2loop_B.cpp: the two-loop bosonic      *)
(* Yukawa contribution, evaluated on the parameters fixed in its body.     *)
(* The arithmetic is that of IEEE doubles on exact values: x/0 is an       *)
(* infinity, 0/0 and 0*infinity are NaN, and NaN propagates.               *)
(***************************************************************************)
pi == Dec(<<3, 1415, 9265, 3589, 7932>>, 4)

\* the constants at the head of amu2L_B_Yuk
Placeholders ==
  [tb |-> One, zetal |-> Zero, lambda5 |-> Zero, eta |-> Zero, al |-> Zero,
   mhSM2 |-> Zero, mHp2 |-> Zero, mw2 |-> Zero, mz2 |-> Zero, mm2 |-> Zero]

\* Eq.(102): every term has a factor (u + 2*w), and divides by u
YF1(u, w, cw2) ==
  LET p1 == PhiOf("cur", w, w, One)
      p2 == PhiOf("cur", w, w, w)
      um1 == QSub(u, One)
  IN  Out(IF IsNaN(u) \/ IsNaN(w) \/ IsNaN(cw2) THEN NaNTerm
          ELSE T("YF1", <<u, w, cw2>>, <<p1.val, p2.val>>),
          <<>>,
          p1.ev \cup p2.ev \cup {Ev("YF1", <<u, w, cw2>>), Log(w), Log(u)}
            \cup {Div(u), Div(QMul(Two, QMul(um1, u))),
                  Div(QMul(QSub(QMul(Four, w), One), um1)),
                  Div(QMul(QMul(QSub(QMul(Four, w), u), um1), QMul(u, u)))})

\* Eq.(99): al*pi/(cw2*(-1.0 + cw2))*(u + 2*w)
fb(u, w, al, cw2) ==
  LET d == QMul(cw2, QAdd(Q(-1, 1), cw2))
  IN  Out(Num(QMul(QDiv(QMul(al, pi), d), QAdd(u, QMul(Two, w)))), <<>>, {Div(d)})

\* Eq.(100): al2/(576*sqr(pi)*cw4*sw4) * mm2/mz2 * 1.0/(al*pi) * YF1(u,w,cw2)
Fm0(u, w, al, cw2, mm2, mz2) ==
  LET cw4 == QMul(cw2, cw2)
      sw2 == QSub(One, cw2)
      d1 == QMul(QMul(QMul(Q(576, 1), sqr(pi)), cw4), QMul(sw2, sw2))
      d2 == QMul(al, pi)
      k == QMul(QDiv(QMul(QDiv(QMul(al, al), d1), mm2), mz2), QDiv(One, d2))
      y == YF1(u, w, cw2)
  IN  Out(IF IsNaN(k) \/ IsNaNTerm(y.val) THEN NaNTerm
          ELSE T("times", <<k>>, <<y.val>>),
          <<>>, y.ev \cup {Div(d1), Div(mz2), Div(d2)})

amu2L_B_Yuk ==
  LET p == Placeholders
      cw2 == QDiv(p.mw2, p.mz2)
      xhSM == QDiv(p.mhSM2, p.mz2)
      xHp == QDiv(p.mHp2, p.mz2)
      f == fb(xhSM, xHp, p.al, cw2)
      m == Fm0(xhSM, xHp, p.al, cw2, p.mm2, p.mz2)
      \* tb - 1.0/tb, and the terms whose coefficients are the literal 0.0
      t == QSub(p.tb, QDiv(One, p.tb))
      rest == QAdd(QAdd(QMul(QMul(Zero, t), p.zetal), QMul(Zero, p.lambda5)),
                   QAdd(QMul(QMul(QMul(Zero, t), p.lambda5), p.zetal),
                        QMul(QAdd(QAdd(QMul(Zero, t), QMul(Zero, p.zetal)),
                                  QAdd(QMul(QMul(Zero, t), p.lambda5),
                                       QMul(QMul(Zero, p.lambda5), p.zetal))),
                             p.eta)))
  IN  Out(IF IsNaNTerm(f.val) \/ IsNaNTerm(m.val) \/ IsNaN(rest) THEN NaNTerm
          ELSE T("amu2L_B_Yuk", <<rest>>, <<f.val, m.val>>),
          <<>>,
          f.ev \cup m.ev \cup {Div(p.mz2), Div(p.tb)})

(***************************************************************************)
(* Gn(wa,wb,n) of the earlier copy, built on the odeint integration.       *)
(***************************************************************************)
\* how a run of the library integrator can end
IntegrationEnds == {"completes", "throws"}

\* an exception leaving a call instead of a value
Thrown == T("throw", <<>>, <<>>)

\* integrate(fun, start, stop, dt): returns x0[0], or the library throws
integrate(wa, wb, n, io) ==
  Out(IF io = "throws" THEN Thrown ELSE T("integral", <<wa, wb, n>>, <<>>),
      <<>>,
      {Ev("integrate." \o io, <<wa, wb, n>>)})

\* try { integrate(...); } without the catch (...) {}
Gn_nocatch(wa, wb, n, io) ==
  LET r == integrate(wa, wb, n, io)
  IN  Out(IF r.val = Thrown THEN Thrown ELSE NaNTerm, <<>>, r.ev)

\* res = quiet_NaN; try { integrate(...); } catch (...) {}  return res;
Gn(wa, wb, n, io) ==
  LET r == integrate(wa, wb, n, io)
  IN  Out(NaNTerm, <<>>, r.ev)

(***************************************************************************)
(* The state machine: a caller picks a copy of the layer, a function and   *)
(* arguments; the call runs to completion and its outcome is observed.     *)
(***************************************************************************)
VARIABLES
  pc,     \* "idle" before a call, "done" after it returned
  ver,    \* the copy of the layer called: "cur" or "old"
  fn,     \* the function called
  args,   \* its arguments
  ret,    \* its outcome
  glob,   \* the non-local data of the layer: eps and qdrt_eps
  th,     \* the calls in progress on each thread
  stack   \* the call stack of one call, innermost frame last

vars == <<pc, ver, fn, args, ret, glob, th, stack>>

Vers == {"cur", "old"}

\* bounds of the argument sets
MaxNeg == 2
MaxGrid == 12
MaxCoarse == 9
MaxFine == 5
MaxTiny == 2
MaxHalf == 4
MaxNear == 3
MaxInt3 == 4
MaxPow == 3

\* k*1e-16, below eps
Tiny == {Dec(<<k>>, 4) : k \in 1..MaxTiny}

\* arguments of the one-argument functions
Arg1 ==
  {Q(k, 4) : k \in (-MaxNeg)..MaxGrid}
    \cup {Q(100 + j, 100) : j \in (-MaxCoarse)..MaxCoarse}
    \cup {Q(2000 + j, 2000) : j \in (-MaxFine)..MaxFine}
    \cup Tiny

\* arguments of the two-argument functions
Arg2 ==
  {Q(k, 2) : k \in (-1)..MaxHalf}
    \cup {Q(1000 + j, 1000) : j \in (-MaxNear)..MaxNear}
    \cup {Q(2000 + j, 1000) : j \in 1..MaxNear}
    \cup {Q(100 + j, 100) : j \in 1..MaxNear}
    \cup Tiny

\* squared masses on either side of 1/4, closer together than the
\* tolerance of the u = v test of phi_neg: 5e-8 below and 6e-8 above
\* (1e-7 in the earlier copy), 6e-16 below and 2e-15 above (eps)
NearQuarter ==
  {QSub(Quarter, Dec(<<5>>, 2)), QAdd(Quarter, Dec(<<6>>, 2)),
   QSub(Quarter, Dec(<<6>>, 4)), QAdd(Quarter, Dec(<<20>>, 4))}

\* arguments of the three-argument functions
Million == Q(1000 * 1000, 1)
Arg3 ==
  {Q(k, 1) : k \in 0..MaxInt3}
    \cup {Q(2001, 2000), QSub(Million, One), Million, Dec(<<1>>, 4), Q(1, 100)}

\* arguments of Phi: the grid, and pairs near 1/4 with the largest mass 1
ArgPhi ==
  {<<x, y, z>> : x \in Arg3, y \in Arg3, z \in Arg3}
    \cup {<<x, y, One>> : x \in NearQuarter, y \in NearQuarter}

Precs == {eps, Tol0001, Tol001, Tol003}

Bool(b) == Out(T(IF b THEN "true" ELSE "false", <<>>, <<>>), <<>>, {})

NoRet == Out(T("none", <<>>, <<>>), <<>>, {})

\* eps and qdrt_eps as initialised
Globals == [eps |-> eps, qdrt_eps |-> qdrt_eps]

\* a call that assigns the tolerance it wants to the file-level eps
GlobAfter_assign(g, f) == [g EXCEPT !.eps = Tol1em7]

\* the non-local data after a call of f: eps is constexpr (const in the
\* earlier copy) and qdrt_eps is const, so no call writes them
GlobAfter(g, f) == g

\* the threads of the concurrent callers
NThreads == 2
Threads == 1..NThreads

NoCall == [pc |-> "idle", fn |-> "none", args |-> <<>>, tol |-> Globals, ret |-> NoRet]

Init ==
  /\ pc = "idle"
  /\ ver = "cur"
  /\ fn = "none"
  /\ args = <<>>
  /\ ret = NoRet
  /\ glob = Globals
  /\ th = [t \in Threads |-> NoCall]
  /\ stack = <<>>

Call(f, v, a, o) ==
  /\ pc = "idle"
  /\ pc' = "done"
  /\ fn' = f
  /\ ver' = v
  /\ args' = a
  /\ ret' = o
  /\ glob' = GlobAfter(glob, f)
  /\ UNCHANGED <<th, stack>>

Return ==
  /\ pc = "done"
  /\ pc' = "idle"
  /\ ver' = "cur"
  /\ fn' = "none"
  /\ args' = <<>>
  /\ ret' = NoRet
  /\ UNCHANGED <<glob, th, stack>>

CallIsZero == \E v \in Vers, a \in Arg2, p \in Precs :
  Call("is_zero", v, <<a, p>>, Bool(is_zero(a, p)))

CallIsEqual == \E v \in Vers, a \in Arg2, b \in Arg2, p \in Precs :
  Call("is_equal", v, <<a, b, p>>, Bool(is_equal(a, b, p)))

CallF1C == \E v \in Vers, x \in Arg1 : Call("F1C", v, <<x>>, F1C(x))
CallF2C == \E v \in Vers, x \in Arg1 : Call("F2C", v, <<x>>, F2C(x))
CallF3C == \E v \in Vers, x \in Arg1 : Call("F3C", v, <<x>>, F3C(x))
CallF4C == \E v \in Vers, x \in Arg1 : Call("F4C", v, <<x>>, F4C(x))
CallF1N == \E v \in Vers, x \in Arg1 : Call("F1N", v, <<x>>, F1N(x))
CallF2N == \E v \in Vers, x \in Arg1 : Call("F2N", v, <<x>>, F2N(x))
CallF3N == \E v \in Vers, x \in Arg1 : Call("F3N", v, <<x>>, F3N(x))
CallF4N == \E v \in Vers, x \in Arg1 : Call("F4N", v, <<x>>, F4N(x))
CallG3 == \E v \in Vers, x \in Arg1 : Call("G3", v, <<x>>, G3(x))
CallG4 == \E v \in Vers, x \in Arg1 : Call("G4", v, <<x>>, G4(x))

FaOf(v, x, y) == IF v = "cur" THEN Fa(x, y) ELSE FaOld(x, y)
FbOf(v, x, y) == IF v = "cur" THEN Fb(x, y) ELSE FbOld(x, y)

CallFa == \E v \in Vers, x \in Arg2, y \in Arg2 :
  Call("Fa", v, <<x, y>>, FaOf(v, x, y))

CallFb == \E v \in Vers, x \in Arg2, y \in Arg2 :
  Call("Fb", v, <<x, y>>, FbOf(v, x, y))

F1Of(v, w) == IF v = "cur" THEN F1(w) ELSE F1Old(w)
F2Of(v, w) == IF v = "cur" THEN F2(w) ELSE F2Old(w)
F3Of(v, w) == IF v = "cur" THEN F3(w) ELSE F3Old(w)

Callf_PS == \E v \in Vers, z \in Arg1 : Call("f_PS", v, <<z>>, f_PSOf(v, z))
Callf_S == \E v \in Vers, z \in Arg1 : Call("f_S", v, <<z>>, f_S(v, z))
Callf_sferm == \E v \in Vers, z \in Arg1 : Call("f_sferm", v, <<z>>, f_sferm(v, z))
CallF1 == \E v \in Vers, w \in Arg1 : Call("F1", v, <<w>>, F1Of(v, w))
CallF1t == \E v \in Vers, w \in Arg1 : Call("F1t", v, <<w>>, F1t(v, w))
CallF2 == \E v \in Vers, w \in Arg1 : Call("F2", v, <<w>>, F2Of(v, w))
CallF3 == \E v \in Vers, w \in Arg1 : Call("F3", v, <<w>>, F3Of(v, w))

IabcOf(v, a, b, c) == IF v = "cur" THEN Iabc(a, b, c) ELSE IabcOld(a, b, c)

CallPhi == \E v \in Vers, a \in ArgPhi :
  Call("Phi", v, a, PhiOf(v, a[1], a[2], a[3]))

CallIabc == \E v \in Vers, a \in Arg3, b \in Arg3, c \in Arg3 :
  Call("Iabc", v, <<a, b, c>>, IabcOf(v, a, b, c))

\* positive mass ratios u and v on both sides of 1
ArgUV == {Q(1, 16), Q(1, 8)} \cup {Q(k, 2) : k \in 1..MaxHalf}

Callphi_uv == \E v \in Vers, a \in ArgUV, b \in ArgUV :
  Call("phi_uv", v, <<a, b>>, phi_uvOf(v, a, b))

\* amu2L_B_Yuk takes no argument
Callamu2L_B_Yuk == Call("amu2L_B_Yuk", "cur", <<>>, amu2L_B_Yuk)

\* arguments of Gn: wa and wb on the half grid, n = 0..MaxPow
ArgW == {Q(k, 2) : k \in 1..MaxHalf}

\* Gn exists in the earlier copy only
CallGn == \E wa \in ArgW, wb \in ArgW, n \in 0..MaxPow, io \in IntegrationEnds :
  Call("Gn", "old", <<wa, wb, Q(n, 1)>>, Gn(wa, wb, Q(n, 1), io))

Next ==
  \/ CallIsZero \/ CallIsEqual
  \/ CallF1C \/ CallF2C \/ CallF3C \/ CallF4C
  \/ CallF1N \/ CallF2N \/ CallF3N \/ CallF4N
  \/ CallG3 \/ CallG4
  \/ CallFa \/ CallFb
  \/ Callf_PS \/ Callf_S \/ Callf_sferm
  \/ CallF1 \/ CallF1t \/ CallF2 \/ CallF3
  \/ CallPhi \/ Callphi_uv \/ CallIabc
  \/ Callamu2L_B_Yuk
  \/ CallGn
  \/ Return

Spec == Init /\ [][Next]_vars

(***************************************************************************)
(* Concurrent callers: each thread calls a function, reads the non-local   *)
(* tolerances on its way, and returns; the threads' steps interleave       *)
(* freely and no step takes a lock.                                        *)
(***************************************************************************)
ConcArg == {One, Two}

\* the calls the threads make
ConcCalls ==
  {[fn |-> "Fa", args |-> <<x, y>>] : x \in ConcArg, y \in ConcArg}
    \cup {[fn |-> "Phi", args |-> <<x, y, z>>] :
            x \in ConcArg, y \in ConcArg, z \in ConcArg}

\* the call executed alone
Apply(f, a) ==
  IF f = "Fa" THEN Fa(a[1], a[2]) ELSE Phi(a[1], a[2], a[3])

\* the call executed with the tolerances it read: with other tolerances than
\* the initialised ones the tests select by other values
ApplyWith(tol, f, a) ==
  IF tol = Globals THEN Apply(f, a)
  ELSE Out(T("tol", <<tol.eps, tol.qdrt_eps>>, <<Apply(f, a).val>>), <<>>, {})

Begin(t) ==
  /\ th[t].pc = "idle"
  /\ \E c \in ConcCalls :
       th' = [th EXCEPT ![t] = [NoCall EXCEPT !.pc = "called", !.fn = c.fn, !.args = c.args]]
  /\ UNCHANGED <<pc, ver, fn, args, ret, glob, stack>>

ReadTol(t) ==
  /\ th[t].pc = "called"
  /\ th' = [th EXCEPT ![t].pc = "read", ![t].tol = glob]
  /\ UNCHANGED <<pc, ver, fn, args, ret, glob, stack>>

Finish(t) ==
  /\ th[t].pc = "read"
  /\ th' = [th EXCEPT ![t].pc = "done",
                      ![t].ret = ApplyWith(th[t].tol, th[t].fn, th[t].args)]
  /\ glob' = GlobAfter(glob, th[t].fn)
  /\ UNCHANGED <<pc, ver, fn, args, ret, stack>>

Leave(t) ==
  /\ th[t].pc = "done"
  /\ th' = [th EXCEPT ![t] = NoCall]
  /\ UNCHANGED <<pc, ver, fn, args, ret, glob, stack>>

NextConc == \E t \in Threads : Begin(t) \/ ReadTol(t) \/ Finish(t) \/ Leave(t)

SpecConc == Init /\ [][NextConc]_vars

(***************************************************************************)
(* The calls one call makes.  A frame is a function of one copy and the    *)
(* position of its next call site; the sites of a function were read off   *)
(* its body in textual order.  Branches decide which sites are executed,   *)
(* so every site may be executed or passed over.  dilog, clausen_2 and the *)
(* standard library are leaves.                                            *)
(***************************************************************************)
\* the integrand evaluations one run of the library integrator makes, at most
MaxSteps == 2

\* frames a stack may hold in the model
MaxDepth == 8

CalleesCur(f) ==
  CASE f = "pow4" ->
         <<"sqr", "sqr">>
    [] f = "is_equal" ->
         <<"is_zero">>
    [] f = "lambda_2" ->
         <<"sqr">>
    [] f = "luv" ->
         <<"l00", "l00", "l0v", "lv0">>
    [] f = "phi_pos" ->
         <<"is_equal", "is_equal", "lambda_2", "is_equal", "sqr", "sqr",
           "dilog", "luv", "dilog", "dilog">>
    [] f = "cl2acos" ->
         <<"clausen_2">>
    [] f = "phi_neg_1v" ->
         <<"cl2acos", "cl2acos">>
    [] f = "phi_neg" ->
         <<"is_equal", "is_equal", "lambda_2", "is_equal", "clausen_2",
           "is_equal", "phi_neg_1v", "is_equal", "phi_neg_1v", "cl2acos",
           "cl2acos", "cl2acos">>
    [] f = "phi_uv" ->
         <<"lambda_2", "is_zero", "phi_pos", "phi_pos", "phi_pos", "phi_neg">>
    [] f = "F1C" ->
         <<"is_zero", "is_equal", "pow4">>
    [] f = "F2C" ->
         <<"is_zero", "is_equal", "pow3">>
    [] f = "F3C" ->
         <<"is_equal", "sqr", "pow4", "pow3", "sqr", "dilog">>
    [] f = "F4C" ->
         <<"is_zero", "is_equal", "sqr", "pow3", "sqr", "dilog">>
    [] f = "F1N" ->
         <<"is_zero", "is_equal", "pow4">>
    [] f = "F2N" ->
         <<"is_zero", "is_equal", "pow3">>
    [] f = "F3N" ->
         <<"is_zero", "is_equal", "sqr", "pow4", "dilog">>
    [] f = "F4N" ->
         <<"is_zero", "is_equal", "sqr", "pow3", "dilog">>
    [] f = "Fb1" ->
         <<"pow4", "sqr">>
    [] f = "Fbx" ->
         <<"pow4", "sqr", "sqr">>
    [] f = "Fb" ->
         <<"sort2", "is_zero", "is_equal", "is_equal", "Fb11", "is_equal",
           "Fb1", "is_equal", "Fb1", "is_equal", "Fbx", "G4", "G4">>
    [] f = "Fa11" ->
         <<"sqr">>
    [] f = "Fa1" ->
         <<"pow4", "sqr">>
    [] f = "Fax" ->
         <<"pow4", "sqr", "sqr">>
    [] f = "Fa" ->
         <<"sort2", "is_zero", "is_equal", "is_equal", "Fa11", "is_equal",
           "Fa1", "is_equal", "Fa1", "is_equal", "Fax", "G3", "G3">>
    [] f = "G3" ->
         <<"is_equal", "pow3">>
    [] f = "G4" ->
         <<"is_equal", "pow3">>
    [] f = "I0y" ->
         <<"is_equal">>
    [] f = "I1y" ->
         <<"sqr", "sqr", "sqr">>
    [] f = "Ixx" ->
         <<"is_equal", "sqr", "sqr", "sqr", "sqr", "sqr">>
    [] f = "Ixy" ->
         <<"is_zero", "is_zero", "I0y", "is_equal", "Ixx", "is_equal", "I1y",
           "is_equal", "I1y">>
    [] f = "Ixyz" ->
         <<"sort3", "is_zero", "Ixy">>
    [] f = "Iabc" ->
         <<"Ixyz", "sqr", "sqr", "sqr">>
    [] f = "f_PS" ->
         <<"dilog", "clausen_2">>
    [] f = "f_S" ->
         <<"f_PS">>
    [] f = "f_sferm" ->
         <<"f_PS">>
    [] f = "F1" ->
         <<"f_PS">>
    [] f = "F1t" ->
         <<"f_PS">>
    [] f = "F2" ->
         <<"f_PS">>
    [] f = "F3" ->
         <<"f_PS">>
    [] f = "lambda_2_xyz" ->
         <<"lambda_2">>
    [] f = "Phi" ->
         <<"sort3", "phi_uv", "lambda_2">>
    [] OTHER -> <<>>

CalleesOld(f) ==
  CASE f = "pow4" ->
         <<"sqr", "sqr">>
    [] f = "is_equal" ->
         <<"is_zero">>
    [] f = "lambda_2" ->
         <<"sqr">>
    [] f = "phi_pos" ->
         <<"is_equal", "is_equal", "lambda_2", "is_equal", "sqr", "sqr",
           "dilog", "sqr", "dilog", "dilog", "sqr">>
    [] f = "phi_neg_1v" ->
         <<"clausen_2", "clausen_2">>
    [] f = "phi_neg" ->
         <<"is_equal", "is_equal", "lambda_2", "is_equal", "phi_neg_1v",
           "is_equal", "phi_neg_1v", "is_equal", "clausen_2", "clausen_2",
           "clausen_2", "clausen_2", "clausen_2">>
    [] f = "phi_uv" ->
         <<"lambda_2", "is_zero", "phi_pos", "phi_pos", "phi_pos", "phi_neg">>
    [] f = "F1C" ->
         <<"is_zero", "is_equal", "pow4">>
    [] f = "F2C" ->
         <<"is_zero", "is_equal", "pow3">>
    [] f = "F3C" ->
         <<"is_equal", "sqr", "pow4", "pow3", "sqr", "dilog">>
    [] f = "F4C" ->
         <<"is_zero", "is_equal", "sqr", "pow3", "sqr", "dilog">>
    [] f = "F1N" ->
         <<"is_zero", "is_equal", "pow4">>
    [] f = "F2N" ->
         <<"is_zero", "is_equal", "pow3">>
    [] f = "F3N" ->
         <<"is_zero", "is_equal", "sqr", "pow4", "dilog">>
    [] f = "F4N" ->
         <<"is_zero", "is_equal", "sqr", "pow3", "dilog">>
    [] f = "Fb1" ->
         <<"pow4", "sqr">>
    [] f = "Fbx" ->
         <<"pow4", "sqr", "sqr">>
    [] f = "Fb" ->
         <<"is_zero", "is_zero", "is_zero", "is_zero", "is_equal", "is_equal",
           "Fb11", "is_equal", "Fb1", "is_equal", "Fb1", "is_equal", "Fbx",
           "G4", "G4">>
    [] f = "Fa11" ->
         <<"sqr">>
    [] f = "Fa1" ->
         <<"pow4", "sqr">>
    [] f = "Fax" ->
         <<"pow4", "sqr", "sqr">>
    [] f = "Fa" ->
         <<"is_zero", "is_zero", "is_zero", "is_zero", "is_equal", "is_equal",
           "Fa11", "is_equal", "Fa1", "is_equal", "Fa1", "is_equal", "Fax",
           "G3", "G3">>
    [] f = "G3" ->
         <<"is_equal", "pow3">>
    [] f = "G4" ->
         <<"is_equal", "pow3">>
    [] f = "I2aaa" ->
         <<"sqr", "sqr", "sqr">>
    [] f = "I2aac" ->
         <<"sqr", "sqr", "sqr", "sqr">>
    [] f = "I2aa0" ->
         <<"sqr", "sqr">>
    [] f = "Iabc" ->
         <<"is_zero", "is_zero", "is_zero", "is_zero", "is_zero", "is_zero",
           "is_zero", "is_zero", "is_zero", "sqr", "sqr", "sqr", "is_equal",
           "is_equal", "I2aaa", "is_equal", "is_zero", "I2aa0", "I2aac",
           "is_equal", "is_zero", "I2aa0", "I2aac", "is_equal", "is_zero",
           "I2aa0", "I2aac", "is_zero", "I20bc", "is_zero", "I20bc",
           "is_zero", "I20bc">>
    [] f = "f_PS" ->
         <<"dilog", "dilog", "dilog", "dilog">>
    [] f = "f_S" ->
         <<"f_PS">>
    [] f = "f_sferm" ->
         <<"f_PS">>
    [] f = "F1" ->
         <<"dilog", "dilog">>
    [] f = "F1t" ->
         <<"f_PS">>
    [] f = "F2" ->
         <<"dilog", "dilog">>
    [] f = "F3" ->
         <<"dilog", "dilog">>
    [] f = "Gn" ->
         <<"integrate">>
    [] f = "Phi" ->
         <<"sort3", "phi_uv", "lambda_2">>
    [] f = "integrate" -> [k \in 1..MaxSteps |-> "fun"]
    [] f = "fun" -> <<"G">>
    [] OTHER -> <<>>

\* phi_uv applying its reciprocal identity by calling itself
Callees_recursive(v, f) ==
  IF f = "phi_uv"
    THEN <<"lambda_2", "is_zero", "phi_pos", "phi_uv", "phi_uv", "phi_neg">>
  ELSE IF v = "cur" THEN CalleesCur(f) ELSE CalleesOld(f)

Callees(v, f) == IF v = "cur" THEN CalleesCur(f) ELSE CalleesOld(f)

FunctionsCur ==
  {"F1", "F1C", "F1N", "F1t", "F2", "F2C", "F2N", "F3", "F3C", "F3N",
   "F4C", "F4N", "Fa", "Fa1", "Fa11", "Fax", "Fb", "Fb1", "Fb11", "Fbx",
   "G3", "G4", "I0y", "I1y", "Iabc", "Ixx", "Ixy", "Ixyz", "Phi",
   "cl2acos", "f_PS", "f_S", "f_sferm", "is_equal", "is_zero", "l00",
   "l0v", "lambda_2", "lambda_2_xyz", "luv", "lv0", "phi_neg",
   "phi_neg_1v", "phi_pos", "phi_uv", "pow3", "pow4", "sort2", "sort3",
   "sqr"}

FunctionsOld ==
  {"F1", "F1C", "F1N", "F1t", "F2", "F2C", "F2N", "F3", "F3C", "F3N",
   "F4C", "F4N", "Fa", "Fa1", "Fa11", "Fax", "Fb", "Fb1", "Fb11", "Fbx",
   "G", "G3", "G4", "Gn", "I20bc", "I2aa0", "I2aaa", "I2aac", "Iabc",
   "Phi", "f_PS", "f_S", "f_sferm", "fun", "integrate", "is_equal",
   "is_zero", "lambda_2", "phi_neg", "phi_neg_1v", "phi_pos", "phi_uv",
   "pow3", "pow4", "sort3", "sqr"}

Functions(v) == IF v = "cur" THEN FunctionsCur ELSE FunctionsOld

Frame(v, f) == [v |-> v, f |-> f, i |-> 1]

Top == stack[Len(stack)]

\* the stack with the top frame moved past its current call site
Advanced == [stack EXCEPT ![Len(stack)].i = @ + 1]

\* a caller outside the layer calls a function
Enter ==
  /\ stack = <<>>
  /\ \E v \in Vers : \E f \in Functions(v) : stack' = <<Frame(v, f)>>
  /\ UNCHANGED <<pc, ver, fn, args, ret, glob, th>>

\* the top frame executes its next call site
CallSite ==
  /\ stack # <<>>
  /\ Top.i <= Len(Callees(Top.v, Top.f))
  /\ Len(stack) < MaxDepth
  /\ stack' = Append(Advanced, Frame(Top.v, Callees(Top.v, Top.f)[Top.i]))
  /\ UNCHANGED <<pc, ver, fn, args, ret, glob, th>>

\* the top frame passes over its next call site (branch not taken)
SkipSite ==
  /\ stack # <<>>
  /\ Top.i <= Len(Callees(Top.v, Top.f))
  /\ stack' = Advanced
  /\ UNCHANGED <<pc, ver, fn, args, ret, glob, th>>

\* the top frame has no call site left and returns
ReturnTop ==
  /\ stack # <<>>
  /\ Top.i > Len(Callees(Top.v, Top.f))
  /\ stack' = SubSeq(stack, 1, Len(stack) - 1)
  /\ UNCHANGED <<pc, ver, fn, args, ret, glob, th>>

NextCalls == Enter \/ CallSite \/ SkipSite \/ ReturnTop

\* a thread inside a call keeps running
SpecCalls == Init /\ [][NextCalls]_vars /\ WF_vars(NextCalls)

(***************************************************************************)
(* Properties.                                                             *)
(***************************************************************************)
Called(f) == pc = "done" /\ fn = f

Negative(q) == QLt(q, Zero)
NonNegative(q) == QGe(q, Zero)

Perms3(a) ==
  {<<a[1], a[2], a[3]>>, <<a[1], a[3], a[2]>>, <<a[2], a[1], a[3]>>,
   <<a[2], a[3], a[1]>>, <<a[3], a[1], a[2]>>, <<a[3], a[2], a[1]>>}

\* the ratios Phi passes to phi_uv, and their discriminant
PhiU == QDiv(sort3(args[1], args[2], args[3])[1], sort3(args[1], args[2], args[3])[3])
PhiV == QDiv(sort3(args[1], args[2], args[3])[2], sort3(args[1], args[2], args[3])[3])
PhiLambda == lambda_2(PhiU, PhiV)

\* C1: Fa and Fb called with a negative argument in either position, and
\* f_PS called with a negative argument, emit a diagnostic and return NaN
\* without evaluating any branch formula.
C1_DomainError ==
  (pc = "done"
   /\ \/ (fn \in {"Fa", "Fb"} /\ (Negative(args[1]) \/ Negative(args[2])))
      \/ (fn = "f_PS" /\ Negative(args[1])))
    => (Len(ret.diag) >= 1 /\ IsNaNTerm(ret.val) /\ ret.ev = {})

\* C2: f_S, f_sferm, F1, F1t, F2 and F3 return NaN and emit exactly one
\* diagnostic for a negative argument, and emit none for a non-negative one.
C2_OneDiagnostic ==
  (pc = "done" /\ fn \in {"f_S", "f_sferm", "F1", "F1t", "F2", "F3"})
    => /\ Negative(args[1]) => (IsNaNTerm(ret.val) /\ Len(ret.diag) = 1)
       /\ NonNegative(args[1]) => ret.diag = <<>>

C2_Witness ==
  /\ Called("F1t")
  /\ Negative(args[1])
  /\ IsNaNTerm(ret.val)
  /\ Len(ret.diag) = 1

\* C3: for non-negative x and y, Fa(x,y) = Fa(y,x) and Fb(x,y) = Fb(y,x):
\* both orders select the same branch with the same ordered arguments.
C3_Symmetric ==
  /\ (Called("Fa") /\ NonNegative(args[1]) /\ NonNegative(args[2]))
       => FaOf(ver, args[2], args[1]).val = ret.val
  /\ (Called("Fb") /\ NonNegative(args[1]) /\ NonNegative(args[2]))
       => FbOf(ver, args[2], args[1]).val = ret.val

\* C4: Phi is invariant under every permutation of its arguments: the
\* three-swap sort leaves them ascending, as a permutation of the inputs,
\* so all six orders use the same ratios and the same branch.
C4_PhiSymmetric ==
  Called("Phi") =>
    LET p == sort3(args[1], args[2], args[3])
    IN  /\ QLe(p[1], p[2]) /\ QLe(p[2], p[3])
        /\ p \in Perms3(args)
        /\ \A q \in Perms3(args) :
             /\ sort3(q[1], q[2], q[3]) = p
             /\ PhiOf(ver, q[1], q[2], q[3]).val = ret.val

C4_Witness ==
  /\ Called("Phi")
  /\ QGt(args[1], args[2]) /\ QGt(args[2], args[3])
  /\ ret.val.tag = "times"

\* C5: Iabc returns the same value for all six orders of its arguments,
\* each order selecting the same branch with the same role for each value.
C5_IabcSymmetric ==
  Called("Iabc") =>
    \A q \in Perms3(args) : IabcOf(ver, q[1], q[2], q[3]).val = ret.val

\* C6: Fa and Fb return 0 whenever either argument is below eps in absolute
\* value and the other is any non-negative value.
C6_ZeroIfEitherZero ==
  (pc = "done" /\ fn \in {"Fa", "Fb"}
   /\ NonNegative(args[1]) /\ NonNegative(args[2])
   /\ (is_zero(args[1], eps) \/ is_zero(args[2], eps)))
    => ret.val = Num(Zero)

\* C7: F1C..F4C, F1N..F4N, G3 and G4 called with x = 0 return a finite
\* constant from a zero test, and never evaluate log(x) at x = 0.
C7_ZeroCheck ==
  (pc = "done"
   /\ fn \in {"F1C", "F2C", "F3C", "F4C", "F1N", "F2N", "F3N", "F4N", "G3", "G4"}
   /\ args[1] = Zero)
    => (IsNum(ret.val) /\ IsFinite(ret.val.args[1]) /\ Log(Zero) \notin ret.ev)

\* C8: the known exact values are returned as literals by a branch selected
\* before any closed form or series is evaluated.
C8_ExactValues ==
  pc = "done" =>
    /\ (fn = "F1C" /\ args[1] = Zero) => ret = Const(Q(4, 1))
    /\ (fn = "F2C" /\ args[1] = Zero) => ret = Const(Zero)
    /\ (fn = "F1N" /\ args[1] = Zero) => ret = Const(Q(2, 1))
    /\ (fn = "F2N" /\ args[1] = Zero) => ret = Const(Q(3, 1))
    /\ (fn = "F3N" /\ args[1] = Zero) => ret = Const(Q(8, 105))
    /\ (fn = "f_PS" /\ args[1] = Zero) => ret = Const(Zero)
    /\ (fn = "f_PS" /\ args[1] = Quarter) => ret = Const(Ln4)
    /\ (fn = "F1" /\ args[1] = Quarter) => ret = Const(Q(-1, 2))
    /\ (fn = "F2" /\ args[1] = Quarter) => ret = Const(OneMinusLn4)
    /\ (fn = "F3" /\ args[1] = Quarter) => ret = Const(Q(19, 4))

C8_Witness ==
  /\ Called("f_PS")
  /\ args[1] = Quarter
  /\ ret.val = Num(Ln4)
  /\ ret.ev = {}

\* C9 as stated: phi_uv, and hence Phi, returns exactly 0 whenever the
\* discriminant lambda^2(u,v) is below 1e-11 in absolute value, evaluating
\* neither phi_pos nor phi_neg.
C9_ZeroWithin1em11 ==
  (Called("Phi") /\ is_zero(PhiLambda, Tol1em11))
    => (ret.val = Num(Zero) /\ ret.ev = {})

\* the zero tolerance phi_uv applies to the discriminant in each copy
PhiTol(v) == IF v = "cur" THEN eps ELSE Tol1em11

\* C9 as amended: phi_uv, and hence Phi, returns exactly 0 whenever the
\* discriminant is below the zero tolerance of the copy called (eps in the
\* current file, 1e-11 in the earlier one), evaluating neither phi_pos nor
\* phi_neg.
C9_ZeroWithinTolerance ==
  (Called("Phi") /\ is_zero(PhiLambda, PhiTol(ver)))
    => (ret.val = Num(Zero) /\ ret.ev = {})

C9_Witness ==
  /\ Called("Phi")
  /\ ver = "cur"
  /\ QGt(sort3(args[1], args[2], args[3])[1], Zero)
  /\ is_zero(PhiLambda, eps)
  /\ ret.val = Num(Zero)

\* C10: is_zero(a,prec) holds exactly when -prec < a < prec; is_equal(a,b,prec)
\* holds exactly when a - b and b - a are both below prec + prec*max(|a|,|b|);
\* so is_equal is symmetric in a and b and holds for b = a.
C10_Comparison ==
  /\ Called("is_zero") =>
       (ret = Bool(TRUE)) = (QLt(QNeg(args[2]), args[1]) /\ QLt(args[1], args[2]))
  /\ Called("is_equal") =>
       LET a == args[1]
           b == args[2]
           prec == args[3]
           m == IF QGe(QAbs(a), QAbs(b)) THEN QAbs(a) ELSE QAbs(b)
           r == QAdd(prec, QMul(prec, m))
       IN  /\ (ret = Bool(TRUE)) = (QLt(QSub(a, b), r) /\ QLt(QSub(b, a), r))
           /\ ret = Bool(is_equal(b, a, prec))
           /\ (a = b) => ret = Bool(TRUE)

C10_Witness ==
  /\ Called("is_equal")
  /\ args[3] = Tol0001
  /\ QGe(QAbs(QSub(args[1], args[2])), Tol0001)
  /\ ret = Bool(TRUE)

\* C11: no call lets an exception escape: every call, also one with a
\* domain violation and a call of Gn whose integration throws, returns a
\* double (a number, NaN, or the value of a formula) to its caller.
C11_NoThrow ==
  pc = "done" => ret.val # Thrown

C11_Witness ==
  /\ Called("Gn")
  /\ \E e \in ret.ev : e.f = "integrate.throws"
  /\ IsNaNTerm(ret.val)

\* C15: Gn returns NaN only when the integration failed, and returns the
\* value of the integral when the integration completed.
C15_GnValue ==
  Called("Gn") =>
    /\ IsNaNTerm(ret.val) => (\E e \in ret.ev : e.f = "integrate.throws")
    /\ (\E e \in ret.ev : e.f = "integrate.completes")
         => ret.val = T("integral", args, <<>>)

\* C12 as stated: for every input, also an out-of-domain one, a call has
\* no observable effect but its returned value: it writes no diagnostic and
\* leaves the non-local data as it was.
C12_OnlyReturnValue ==
  pc = "done" => (ret.diag = <<>> /\ glob = Globals)

\* C12 as amended: a call leaves the non-local data as it was, and the only
\* effect besides its returned value is the diagnostic written through
\* ERROR, which occurs only for a negative argument, with a NaN result.
C12_EffectsLimited ==
  pc = "done" =>
    /\ glob = Globals
    /\ ret.diag # <<>> =>
         /\ \E i \in 1..Len(args) : Negative(args[i])
         /\ IsNaNTerm(ret.val)

C12_Witness ==
  /\ Called("Fb")
  /\ ver = "cur"
  /\ Negative(args[1])
  /\ ret.diag # <<>>
  /\ glob = Globals

\* C13: calls made concurrently, with no locking and in any interleaving,
\* return for each call the value the same call returns when executed
\* alone, and eps and qdrt_eps are never written after initialisation.
C13_Concurrent ==
  /\ glob = Globals
  /\ \A t \in Threads :
       th[t].pc = "done" => th[t].ret = Apply(th[t].fn, th[t].args)

C13_Witness ==
  \E t \in Threads, u \in Threads :
    /\ t # u
    /\ th[t].pc = "done" /\ th[t].fn = "Phi"
    /\ th[u].pc = "done" /\ th[u].fn = "Fa"
    /\ th[u].ret = Fa(th[u].args[1], th[u].args[2])

\* no function is on the stack twice: the call graph has no cycle
NoRecursion ==
  \A i \in 1..Len(stack), j \in 1..Len(stack) :
    i # j => stack[i].f # stack[j].f

\* C14: every call terminates: no function ever calls back into a function
\* that is still active (the call graph is acyclic, with the chains Fa->G3,
\* Fb->G4, f_S..F3->f_PS, Phi->phi_uv->phi_pos/phi_neg,
\* Iabc->Ixyz->Ixy->I0y/I1y/Ixx), no function loops, and so a call that has
\* started always returns to its caller.
C14_Terminates ==
  /\ [](NoRecursion /\ Len(stack) < MaxDepth)
  /\ (stack # <<>>) ~> (stack = <<>>)

C14_Witness ==
  /\ Len(stack) = 6
  /\ stack[1].f = "Iabc" /\ stack[1].v = "cur"
  /\ stack[2].f = "Ixyz"
  /\ stack[3].f = "Ixy"
  /\ stack[4].f = "Ixx"
  /\ stack[5].f = "is_equal"
  /\ stack[6].f = "is_zero"

\* the pair the branch tests of Fa and Fb see: sorted in the current copy,
\* as passed in the earlier one
Seen == IF ver = "cur" THEN sort2(args[1], args[2]) ELSE args

\* the tolerance of the branch tests of the function called
BranchTol == IF fn = "Fa" THEN Tol0001 ELSE Tol001

\* the branch the fixed order selects for the pair <<x, y>>: both near 1,
\* first near 1, second near 1, near each other, generic
Ordered(f, x, y, tol) ==
  IF is_equal(x, One, tol) /\ is_equal(y, One, tol) THEN <<f \o "11", <<x, y>>>>
  ELSE IF is_equal(x, One, tol) THEN <<f \o "1", <<y, x>>>>
  ELSE IF is_equal(y, One, tol) THEN <<f \o "1", <<x, y>>>>
  ELSE IF is_equal(x, y, tol) THEN <<f \o "x", <<x, y>>>>
  ELSE <<f \o ".generic", sort2(x, y)>>

\* C18: in Fa (tolerance 0.001) and Fb (tolerance 0.01), for non-negative
\* arguments whose larger value is not approximately 0, a call that reaches
\* the branch tests takes the first branch, in the order both near 1, first
\* near 1, second near 1, near each other, generic, whose test holds (the
\* current copy always reaches them); the generic quotient is evaluated
\* only when no degenerate test holds, and its divisor x - y is not 0.
C18_BranchOrder ==
  (pc = "done" /\ fn \in {"Fa", "Fb"}
   /\ NonNegative(args[1]) /\ NonNegative(args[2])
   /\ ~is_zero(QMax(args[1], args[2]), eps))
    => LET x == Seen[1]
           y == Seen[2]
           b == Ordered(fn, x, y, BranchTol)
       IN  /\ ver = "cur" => ret.ev # {}
           /\ ret.ev # {} =>
                /\ ret.val.tag = b[1]
                /\ ret.val.args = b[2]
           /\ ret.val.tag \in {"Fa.generic", "Fb.generic"} =>
                /\ ~is_equal(x, One, BranchTol)
                /\ ~is_equal(y, One, BranchTol)
                /\ ~is_equal(x, y, BranchTol)
                /\ Div(QSub(x, y)) \in ret.ev
                /\ \A e \in ret.ev : e.f = "div" => ~QEq(e.args[1], Zero)

C18_Witness ==
  /\ Called("Fa")
  /\ args[1] # args[2]
  /\ is_equal(args[1], One, Tol0001) /\ is_equal(args[2], One, Tol0001)
  /\ is_equal(args[1], args[2], Tol0001)
  /\ ret.val.tag = "Fa11"

\* C19: whenever Fa or Fb calls Fa1, Fax, Fb1 or Fbx, for arguments
\* x, y >= 0, the helper's first argument is neither 0 nor within the
\* caller's tolerance of 1.
C19_HelperDomain ==
  (pc = "done" /\ fn \in {"Fa", "Fb"}
   /\ NonNegative(args[1]) /\ NonNegative(args[2])
   /\ ret.val.tag \in {"Fa1", "Fax", "Fb1", "Fbx"})
    => /\ ~QEq(ret.val.args[1], Zero)
       /\ ~is_equal(ret.val.args[1], One, BranchTol)

\* the calls of phi_pos on record in the result
PhiPosCalls == {e \in ret.ev : e.f = "phi_pos"}

\* what phi_pos(a, b) of the copy called gives
PhiPosResult(a, b) == IF ver = "cur" THEN phi_pos(a, b) ELSE phi_posOld(a, b)

\* the result is phi_pos(a, b) divided by w
FromPhiPos(a, b, w) == ret = Scale(PhiPosResult(a, b), QDiv(One, w))

\* C20: for u > 0, v > 0 and lambda^2(u,v) > 0 every call of phi_pos that
\* phi_uv makes has both arguments <= 1: it is phi_pos(u,v) when u <= 1 and
\* v <= 1, else phi_pos(1/u, v/u) with the result divided by u, else
\* phi_pos(1/v, u/v) with the result divided by v
C20_PhiPosArguments ==
  (Called("phi_uv") /\ QGt(args[1], Zero) /\ QGt(args[2], Zero)
     /\ QGt(lambda_2(args[1], args[2]), Zero)) =>
    \A e \in PhiPosCalls :
      LET u == args[1]
          v == args[2]
      IN  /\ QLe(e.args[1], One) /\ QLe(e.args[2], One)
          /\ \/ QLe(u, One) /\ QLe(v, One)
                /\ e.args = <<u, v>> /\ ret = PhiPosResult(u, v)
             \/ ~(QLe(u, One) /\ QLe(v, One)) /\ QGe(u, One) /\ QLe(v, u)
                /\ e.args = <<QDiv(One, u), QDiv(v, u)>>
                /\ FromPhiPos(QDiv(One, u), QDiv(v, u), u)
             \/ QGe(v, One) /\ QLe(u, v)
                /\ e.args = <<QDiv(One, v), QDiv(u, v)>>
                /\ FromPhiPos(QDiv(One, v), QDiv(u, v), v)

\* phi_uv(1/16, 2): phi_pos is called on (1/2, 1/32)
C20_Witness ==
  /\ Called("phi_uv") /\ QGt(args[1], Zero) /\ QLt(args[1], One)
  /\ QGt(args[2], One) /\ QGt(lambda_2(args[1], args[2]), Zero)
  /\ PhiPosCalls = {Ev("phi_pos", <<QDiv(One, args[2]), QDiv(args[1], args[2])>>)}

\* C21: Phi(x,x,x) with x > 0 takes the branch of phi_neg for u and v both
\* equal to 1 within tolerance, which returns the literal 2.343907238689459
\* and evaluates no formula: the result is x times the fixed number
\* 2.343907238689459*lambda^2(1,1)/2 and is not NaN
C21_PhiEqualArguments ==
  (Called("Phi") /\ args[1] = args[2] /\ args[2] = args[3] /\ QGt(args[1], Zero)) =>
    /\ ret.ev = {Ev("phi_neg", <<One, One>>)}
    /\ ret.diag = <<>>
    /\ ret.val = Num(QMul(PhiOne, QDiv(QMul(args[1], lambda_2(One, One)), Two)))
    /\ ~IsNaNTerm(ret.val)

C21_Witness ==
  /\ Called("Phi") /\ ver = "cur" /\ args = <<Two, Two, Two>>
  /\ IsNum(ret.val) /\ QEq(ret.val.args[1], QMul(PhiOne, Q(-3, 1)))

\* the case of f_PS that the result shows
CaseTaken ==
  IF ret.val = Num(Zero) /\ ret.ev = {} THEN "zero"
  ELSE IF ret.val = Num(Ln4) /\ ret.ev = {} THEN "quarter"
  ELSE IF ret.val.tag \in {"f_PS.dilog", "f_PS.dilogs"} THEN "below"
  ELSE IF ret.val.tag \in {"f_PS.clausen", "f_PS.complex"} THEN "above"
  ELSE "none"

\* the case of f_PS that z >= 0 belongs to
CaseOf(z) ==
  IF QEq(z, Zero) THEN "zero"
  ELSE IF QLt(z, Quarter) THEN "below"
  ELSE IF QEq(z, Quarter) THEN "quarter"
  ELSE "above"

\* the numbers whose square root the call took, and divided by
Radicands == {e.args[1] : e \in {d \in ret.ev : d.f \in {"sqrt", "div.sqrt"}}}

\* C22 as stated: every z >= 0 selects exactly its own one of the four cases
\* z = 0, 0 < z < 0.25, z = 0.25, z > 0.25, and the number under the square
\* root is positive in both formula cases, so the root is real and the
\* divisor y is not 0
C22_RealRoot ==
  (Called("f_PS") /\ QGe(args[1], Zero)) =>
    /\ CaseTaken = CaseOf(args[1])
    /\ \A r \in Radicands : QGt(r, Zero)

\* C22 amended: every z >= 0 selects exactly its own one of the four cases;
\* below 0.25 the root of 1 - 4z > 0 is taken; above 0.25 the current code
\* takes the root of 4z - 1 > 0 and the earlier code the complex root of
\* 1 - 4z < 0, which is imaginary; the divisor y is not 0 in any of them
C22_Partition ==
  (Called("f_PS") /\ QGe(args[1], Zero)) =>
    /\ CaseTaken = CaseOf(args[1])
    /\ CaseTaken \in {"zero", "quarter"} => Radicands = {}
    /\ CaseTaken = "below" =>
         Radicands = {QSub(One, QMul(Four, args[1]))}
    /\ (CaseTaken = "above" /\ ver = "cur") =>
         Radicands = {QAdd(Q(-1, 1), QMul(Four, args[1]))}
    /\ (CaseTaken = "above" /\ ver = "old") =>
         Radicands = {QSub(One, QMul(Four, args[1]))}
    /\ \A r \in Radicands :
         /\ ~QEq(r, Zero)
         /\ QLt(r, Zero) <=> (ver = "old" /\ CaseTaken = "above")

\* f_PS(1/2) of the earlier copy: the root of 1 - 4z = -1
C22_Witness ==
  /\ Called("f_PS") /\ ver = "old" /\ CaseTaken = "above"
  /\ \E r \in Radicands : QEq(r, Q(-1, 1))

\* the literal that the body of f returns at w = 0.25
OwnConstant(f) ==
  CASE f = "F1" -> Q(-1, 2)
    [] f = "F1t" -> QMul(Half, Ln4)
    [] f = "F2" -> OneMinusLn4
    [] f = "F3" -> Q(19, 4)

\* C23 as stated: each of F1, F1t, F2 and F3 tests w = 0.25 in its own body
\* and returns its exact constant there
C23_OwnCheck ==
  (pc = "done" /\ fn \in {"F1", "F1t", "F2", "F3"} /\ args[1] = Quarter) =>
    ret = Const(OwnConstant(fn))

\* C23 amended: F1, F2 and F3 test w = 0.25 in their own bodies and return
\* their exact constants there; F1t makes no test and returns 0.5 times what
\* f_PS returns, which at w = 0.25 is the literal of f_PS's own test
C23_BranchPoint ==
  (pc = "done" /\ fn \in {"F1", "F1t", "F2", "F3"} /\ args[1] = Quarter) =>
    /\ fn \in {"F1", "F2", "F3"} => ret = Const(OwnConstant(fn))
    /\ fn = "F1t" =>
         /\ ret.val = T("F1t", <<Quarter>>, <<Num(Ln4)>>)
         /\ ret.ev = {Ev("F1t", <<Quarter>>)}
         /\ ret.diag = <<>>

C23_Witness ==
  /\ Called("F1t") /\ args[1] = Quarter
  /\ ret.val.sub = <<Num(Ln4)>>

\* the one-argument form factors, and the radius the text gives for each
FormFactors == {"F1C", "F2C", "F3C", "F4C", "F1N", "F2N", "F3N", "F4N", "G3", "G4"}

Radius(f) ==
  IF f = "F2N" THEN Q(4, 100)
  ELSE IF f \in {"G3", "G4"} THEN Q(1, 100)
  ELSE Q(3, 100)

\* the form factors that test x against zero first
ZeroTested == FormFactors \ {"F3C", "G3", "G4"}

UsesSeries == ret.val.tag = fn \o ".series"
UsesClosed == ret.val.tag = fn \o ".closed"

\* C24 as stated: the expansion in (x - 1) is used only when |x - 1| is
\* smaller than the function's radius, and the closed form for every other
\* x > 0
C24_AbsoluteRadius ==
  (pc = "done" /\ fn \in FormFactors /\ QGt(args[1], Zero)) =>
    /\ UsesSeries <=> QLt(QAbs(QSub(args[1], One)), Radius(fn))
    /\ UsesClosed <=> ~QLt(QAbs(QSub(args[1], One)), Radius(fn))

\* C24 amended: for x > 0 that is not below eps where the function tests
\* for zero, the expansion in (x - 1) is used exactly when
\* |x - 1| < radius*(1 + max(|x|, 1)), and the closed form otherwise; for
\* x below eps the functions that test for zero return their literal
C24_RelativeRadius ==
  (pc = "done" /\ fn \in FormFactors /\ QGt(args[1], Zero)) =>
    LET x == args[1]
        literal == fn \in ZeroTested /\ QLt(x, eps)
        near == QLt(QAbs(QSub(x, One)),
                    QMul(Radius(fn), QAdd(One, QMax(QAbs(x), One))))
    IN  /\ literal <=> (IsNum(ret.val) /\ ret.ev = {})
        /\ UsesSeries <=> (~literal /\ near)
        /\ UsesClosed <=> (~literal /\ ~near)

\* F1C(1.05): |x - 1| = 0.05 is not below 0.03, and the expansion is used
C24_Witness ==
  /\ Called("F1C") /\ QGe(QAbs(QSub(args[1], One)), Radius("F1C"))
  /\ UsesSeries

\* how many of the arguments of the call are 0
ZeroArguments == Cardinality({i \in DOMAIN args : QEq(args[i], Zero)})

\* the evaluations that divide by 0 or take the logarithm of 0
Singular ==
  {e \in ret.ev : e.f \in {"div", "log"} /\ (QEq(e.args[1], Zero) \/ ~IsFinite(e.args[1]))}

\* C25: Iabc returns exactly 0 when at least two of its arguments are 0,
\* dividing by no zero and taking no logarithm of 0; with exactly one
\* argument 0 it evaluates the one-zero formula, I0y in the current code
\* and I20bc in the earlier one
C25_ZeroArguments ==
  Called("Iabc") =>
    /\ ZeroArguments >= 2 => (ret.val = Num(Zero) /\ Singular = {})
    /\ (ZeroArguments = 1 /\ ver = "cur") =>
         \E e \in ret.ev : e.f \in {"I0y.series", "I0y.closed"}
    /\ (ZeroArguments = 1 /\ ver = "old") => ret.val.tag = "I20bc"

\* C26: with x, y, z >= 0 and the largest of them positive, Phi takes no
\* logarithm of 0 and divides by no 0, and its result is not NaN
C26_PhiNonSingular ==
  (Called("Phi") /\ (\A i \in 1..3 : QGe(args[i], Zero))
                 /\ (\E i \in 1..3 : QGt(args[i], Zero))) =>
    /\ Singular = {}
    /\ \A e \in ret.ev : e.f = "div.sqrt" => ~QEq(e.args[1], Zero)
    /\ ~IsNaNTerm(ret.val)

\* the calls of phi_neg on record in the result
PhiNegCalls == {e \in ret.ev : e.f = "phi_neg"}

\* C27: whenever phi_neg is evaluated, u and v are both positive,
\* lambda = sqrt(-lambda^2) is not 0, and every argument passed to acos or
\* asin in the branch selected lies in [-1, 1]
C27_PhiNegDomain ==
  (pc = "done" /\ fn \in {"Phi", "phi_uv"}) =>
    \A c \in {d \in PhiNegCalls : /\ QGe(d.args[1], Zero) /\ QGe(d.args[2], Zero)
                                   /\ QLt(lambda_2(d.args[1], d.args[2]), Zero)} :
      /\ QGt(c.args[1], Zero) /\ QGt(c.args[2], Zero)
      /\ \A e \in ret.ev : e.f \in {"sqrt", "div.sqrt"} => QGt(e.args[1], Zero)
      /\ \A e \in ret.ev : e.f \in {"acos", "asin"} => QLe(e.args[1], One)

\* the calls of Ixy on record in the result
IxyCalls == {e \in ret.ev : e.f = "Ixy"}

\* the result comes from Ixx
FromIxx == \E e \in ret.ev : e.f \in {"Ixx.series", "Ixx.closed"}

\* C28: reached through Iabc, Ixy is called with 0 <= x <= y <= 1, and with
\* that order the branch "x near 1: I1y(x,y)" is not selected: an x within
\* 0.001 of 1 has x/y within 0.001 of 1 and goes to Ixx
C28_FirstI1yUnused ==
  (Called("Iabc") /\ ver = "cur") =>
    \A c \in IxyCalls :
      LET x == c.args[1]
          y == c.args[2]
      IN  /\ QLe(Zero, x) /\ QLe(x, y) /\ QLe(y, One)
          /\ Ev("I1y", <<x, y>>) \notin ret.ev
          /\ (~is_zero(x, eps) /\ is_equal(x, One, Tol0001)) =>
               (is_equal(QDiv(x, y), One, Tol0001) /\ FromIxx)

\* Iabc(1, 2001/2000, 2001/2000): x < y = 1, x near 1, Ixx selected
C28_Witness ==
  /\ Called("Iabc") /\ ver = "cur" /\ FromIxx
  /\ \E c \in IxyCalls :
       /\ QLt(c.args[1], c.args[2])
       /\ is_equal(c.args[1], One, Tol0001)

\* the evaluations of the formula named tag
Evaluated(tag) == {e \in ret.ev : e.f = tag}

\* C29: no divisor is 0 in the general formula of Ixy nor in the calls of
\* I1y and Ixx that Ixy makes: in the general formula x > 0, y > 0 and
\* x - 1, x - y, y - 1 are not 0; the second argument of I1y is not 1; in
\* the closed formula of Ixx, y is neither 1 nor 0
C29_NoZeroDivisor ==
  (Called("Iabc") /\ ver = "cur") =>
    /\ \A e \in Evaluated("Ixy.generic") :
         /\ QGt(e.args[1], Zero) /\ QGt(e.args[2], Zero)
         /\ ~QEq(e.args[1], One) /\ ~QEq(e.args[1], e.args[2])
         /\ ~QEq(e.args[2], One)
    /\ \A e \in Evaluated("I1y") : ~QEq(e.args[2], One) /\ QGt(e.args[2], Zero)
    /\ \A e \in Evaluated("Ixx.closed") :
         ~QEq(e.args[2], One) /\ ~QEq(e.args[2], Zero)
    /\ (Evaluated("Ixy.generic") \cup Evaluated("I1y") \cup Evaluated("Ixx.closed")) # {}
         => Singular = {}

\* Iabc(1, 2, 3): the general formula, dividing by x - 1, x - y and y - 1
C29_Witness ==
  /\ Called("Iabc") /\ ver = "cur" /\ ret.val.tag = "times"
  /\ Evaluated("Ixy.generic") # {}
  /\ \E e \in ret.ev : e.f = "div" /\ ~QEq(e.args[1], Zero)

\* the divisions by 0 on record in the result
ZeroDivisions == {e \in ret.ev : e.f = "div" /\ QEq(e.args[1], Zero)}

\* C30: amu2L_B_Yuk(), on the parameters fixed in its body, divides by no
\* quantity that is 0 and returns a finite number
C30_FiniteResult ==
  Called("amu2L_B_Yuk") => (ZeroDivisions = {} /\ ~IsNaNTerm(ret.val))

=============================================================================
